---- MODULE Spec2Model ----
(***************************************************************************)
(* A model of the two programs of the repository:                          *)
(*   - main_bkp.py: the File Retrieval Service (startup validation of the  *)
(*     environment, POST /get_file = acquire_access_token followed by      *)
(*     download_file_by_path), specification Spec;                         *)
(*   - the path construction of download_file_by_path as a pure function,  *)
(*     specification SpecPath;                                             *)
(*   - get_site_drive_ids.py: the Identifier Discovery Utility,            *)
(*     specification SpecDiscovery.                                        *)
(* Python strings that the code takes apart (folder, file name, path) are  *)
(* sequences of one-character strings; absent values are one-element       *)
(* sequences holding a marker that is no character.                        *)
(***************************************************************************)
EXTENDS Integers, Sequences, FiniteSets, TLC

VARIABLES
    \* ---- File Retrieval Service (main_bkp.py)
    env,          \* the process environment after load_dotenv(): variable -> value
    started,      \* "no" | "failed" | "ready": module import of main_bkp.py
    startupError, \* the variable named by the RuntimeError of get_env_variable
    config,       \* the module constants TENANT_ID .. DRIVE_ID once loaded
    rpc,          \* per request: "idle" | "token" | "content" | "done"
    body,         \* per request: the JSON body received
    parsed,       \* per request: the FileRequest built from the body
    tokenReply,   \* per request: what the token endpoint answered
    contentReply, \* per request: what the Graph content endpoint answered
    tokenCalls,   \* per request: number of POSTs to the token endpoint
    fetchCalls,   \* per request: number of GETs to the content endpoint
    fetchSent,    \* per request: the GET issued (url, bearer token)
    response,     \* per request: the HTTP response of POST /get_file
    \* ---- path construction (download_file_by_path, lines 100-101)
    pFolder, pFile, pPath, pState,
    \* ---- Identifier Discovery Utility (get_site_drive_ids.py)
    dArgs,        \* the parsed command line
    dpc,          \* "token" | "site" | "drive" | "done"
    dReplies,     \* stage -> what the endpoint answered
    dLocals,      \* main's token, site_id and drive_id
    dCalls,       \* the network calls issued, in order
    dStdout, dStderr,
    dExit         \* what main did: returns 0 / 1, or an exception leaves it

svcVars  == <<env, started, startupError, config, rpc, body, parsed, tokenReply,
              contentReply, tokenCalls, fetchCalls, fetchSent, response>>
pathVars == <<pFolder, pFile, pPath, pState>>
discVars == <<dArgs, dpc, dReplies, dLocals, dCalls, dStdout, dStderr, dExit>>
vars     == <<svcVars, pathVars, discVars>>

\* ------------------------------------------------------------------ bounds
NumRequests == 2   \* concurrent POST /get_file requests
MaxBody     == 1   \* bytes of a file body
MaxLen      == 3   \* characters of a folder or file name
MaxDrives   == 2   \* entries of a drive listing

\* ------------------------------------------------------------ Python values
PyNone  == <<"None">>     \* Python None / JSON null
Absent  == <<"absent">>   \* a JSON field or environment variable that is not there

IsStr(v) == v # PyNone /\ v # Absent

\* Python truthiness of an Optional[str]: None and "" are falsy.
Truthy(v) == IsStr(v) /\ Len(v) > 0

\* httpx / requests status classes
IsSuccess(code) == code >= 200 /\ code < 300   \* httpx.Response.is_success
IsErrorStatus(code) == code >= 400 /\ code < 600 \* requests raise_for_status

\* Outcomes of a Python call: a value returned, a fastapi HTTPException raised,
\* or any other exception raised. msg, a and b carry the message and its parts.
Return(v)                 == [kind |-> "return", status |-> 0, msg |-> "", a |-> v, b |-> <<>>]
HTTPException(s, m, a, b) == [kind |-> "http_exception", status |-> s, msg |-> m, a |-> a, b |-> b]
Raise(exc)                == [kind |-> "raise", status |-> 0, msg |-> exc, a |-> <<>>, b |-> <<>>]

\* An upstream reply: a transport failure (no response at all) or a response with
\* a status code and a payload.
TransportFailure    == [kind |-> "transport", code |-> 0, payload |-> <<>>]
HttpReply(code, pl) == [kind |-> "http", code |-> code, payload |-> pl]
NoReply             == [kind |-> "none", code |-> 0, payload |-> <<>>]

\* str(exc) of the exception a failed upstream call raises.
ExcStr(reply) == IF reply.kind = "transport" THEN <<"transport error">>
                 ELSE <<"status error", ToString(reply.code)>>

\* ===================================================== File Retrieval Service
Requests == 1..NumRequests

\* ---- startup (main_bkp.py lines 52-66)
EnvVars   == <<"TENANT_ID", "CLIENT_ID", "CLIENT_SECRET", "SITE_ID", "DRIVE_ID">>
EnvNames  == {EnvVars[i] : i \in 1..Len(EnvVars)}
EnvValues == {Absent, <<>>, <<"v">>}
NoError   == "<none>"

\* get_env_variable, with the bug of testing "value is None" only.
GetEnvVariableNoneOnly(name) ==
    IF env[name] = Absent THEN Raise(name) ELSE Return(env[name])

\* get_env_variable(name): os.getenv(name), RuntimeError naming it when falsy.
GetEnvVariable(name) ==
    IF ~Truthy(env[name]) THEN Raise(name) ELSE Return(env[name])

\* Lines 62-66 from the i-th assignment on: the first get_env_variable that
\* raises ends the import; NoError when all five return.
RECURSIVE LoadConfig(_)
LoadConfig(i) ==
    IF i > Len(EnvVars) THEN NoError
    ELSE IF GetEnvVariable(EnvVars[i]).kind = "raise"
         THEN GetEnvVariable(EnvVars[i]).msg
         ELSE LoadConfig(i + 1)

NoConfig == [n \in EnvNames |-> Absent]

\* Importing main_bkp: the five assignments, then (only if none raised) the
\* rest of the module, which creates the FastAPI app and its route.
Startup ==
    /\ started = "no"
    /\ LET err == LoadConfig(1) IN
        /\ startupError' = err
        /\ started' = IF err = NoError THEN "ready" ELSE "failed"
        /\ config' = IF err = NoError
                     THEN [n \in EnvNames |-> GetEnvVariable(n).a]
                     ELSE NoConfig
    /\ UNCHANGED <<env, rpc, body, parsed, tokenReply, contentReply, tokenCalls,
                   fetchCalls, fetchSent, response>>
    /\ UNCHANGED <<pathVars, discVars>>

\* ---- the remote path (download_file_by_path, lines 100-101)
Whitespace == {" ", "\t"}        \* what str.strip() removes, within Chars
Chars      == {"a", "/", " ", "\t"}

BoundedSeq(S, n) == UNION {[1..k -> S] : k \in 0..n}

RECURSIVE LStrip(_)
LStrip(s) == IF s # <<>> /\ Head(s) \in Whitespace THEN LStrip(Tail(s)) ELSE s

RECURSIVE RStrip(_)
RStrip(s) == IF s # <<>> /\ s[Len(s)] \in Whitespace
             THEN RStrip(SubSeq(s, 1, Len(s) - 1)) ELSE s

\* str.strip(): leading and trailing whitespace removed.
Strip(s) == RStrip(LStrip(s))

\* path.replace(" ", "%20")
RECURSIVE ReplaceSpaces(_)
ReplaceSpaces(s) ==
    IF s = <<>> THEN <<>>
    ELSE (IF Head(s) = " " THEN <<"%", "2", "0">> ELSE <<Head(s)>>)
         \o ReplaceSpaces(Tail(s))

\* Line 100: f"/{folder.strip()}/{file_name}" if folder else f"/{file_name}".
\* The test is on folder as given (None and "" are falsy), the strip comes after.
RemotePath(folder, file_name) ==
    IF Truthy(folder) THEN <<"/">> \o Strip(folder) \o <<"/">> \o file_name
    ELSE <<"/">> \o file_name

\* Line 101.
EncodedPath(folder, file_name) == ReplaceSpaces(RemotePath(folder, file_name))

\* ---- POST /get_file
\* Request bodies: fileName absent, null, "" or "a"; folder absent or "d".
JsonBody(f, d) == [fileName |-> f, folder |-> d]
Bodies    == {JsonBody(Absent, Absent), JsonBody(PyNone, <<"d">>),
              JsonBody(<<>>, Absent), JsonBody(<<"a">>, Absent),
              JsonBody(<<"a">>, <<"d">>)}
NoBody    == [fileName |-> Absent, folder |-> Absent]

\* FileRequest with fileName declared min_length=1.
ValidFileRequestNonEmpty(b) == Truthy(b.fileName)

\* FileRequest (lines 118-121): fileName is a required str (Field(...), no
\* length constraint); folder is Optional[str] with default "".
ValidFileRequest(b) == IsStr(b.fileName)

ParseFileRequest(b) ==
    [fileName |-> b.fileName,
     folder   |-> IF b.folder = Absent THEN <<>> ELSE b.folder]

\* Token endpoint replies: the JSON payload is reduced to its access_token field.
Tokens       == {<<"t1">>, <<"t2">>}
TokenReplies == {TransportFailure, HttpReply(401, Absent)}
                \cup {HttpReply(200, t) : t \in {Absent, <<>>} \cup Tokens}

\* Content endpoint replies: bytes are written in hex; "68" is 'h' and "FF" is a
\* byte that occurs in no UTF-8 text.
Bytes          == {"68", "FF"}
ContentReplies == {TransportFailure, HttpReply(404, <<>>), HttpReply(500, <<>>)}
                  \cup {HttpReply(200, bs) : bs \in BoundedSeq(Bytes, MaxBody)}

\* acquire_access_token that maps every failure to 500.
AcquireAccessToken500(reply) ==
    IF reply.kind = "transport" \/ ~IsSuccess(reply.code)
    THEN HTTPException(500, "Failed to obtain access token", ExcStr(reply), <<>>)
    ELSE IF ~Truthy(reply.payload)
    THEN HTTPException(500, "Authentication service returned no access token", <<>>, <<>>)
    ELSE Return(reply.payload)

\* acquire_access_token (lines 71-95) on the reply to its POST: httpx.HTTPError
\* covers transport errors and the HTTPStatusError of raise_for_status.
AcquireAccessToken(reply) ==
    IF reply.kind = "transport" \/ ~IsSuccess(reply.code)
    THEN HTTPException(502, "Failed to obtain access token", ExcStr(reply), <<>>)
    ELSE IF ~Truthy(reply.payload)
    THEN HTTPException(500, "Authentication service returned no access token", <<>>, <<>>)
    ELSE Return(reply.payload)

\* httpx Response.text: the body decoded (UTF-8 unless the response names a
\* charset) with errors="replace": an undecodable byte becomes U+FFFD, and no
\* UnicodeDecodeError is raised.
DecodeByte(b) == IF b = "68" THEN "h" ELSE "U+FFFD"
Text(bytes)   == [i \in 1..Len(bytes) |-> DecodeByte(bytes[i])]
Decodable(bytes) == \A i \in 1..Len(bytes) : bytes[i] # "FF"

\* download_file_by_path (lines 104-116) on the reply to its GET. Only
\* httpx.HTTPStatusError is caught: a transport error leaves the function as it is.
DownloadFileByPath(folder, file_name, reply) ==
    IF reply.kind = "transport" THEN Raise("httpx.TransportError")
    ELSE IF ~IsSuccess(reply.code)
    THEN IF reply.code = 404
         THEN HTTPException(404, "Archivo no encontrado", file_name, folder)
         ELSE HTTPException(500, "Error al acceder a Graph", ExcStr(reply), <<>>)
    ELSE Return(Text(reply.payload))

\* The GET of lines 99-106.
GraphGet(folder, file_name, access_token) ==
    [drive |-> config["DRIVE_ID"],
     path  |-> EncodedPath(folder, file_name),
     token |-> access_token]
NoFetch == [drive |-> Absent, path |-> <<>>, token |-> Absent]

\* What the framework sends for the outcome of the route function: the returned
\* str as 200 text/plain (response_class=PlainTextResponse), an HTTPException as
\* its status and detail, any other exception as a bare 500.
Respond(out) ==
    IF out.kind = "return"
    THEN [status |-> 200, handled |-> TRUE, msg |-> "", a |-> out.a, b |-> <<>>]
    ELSE IF out.kind = "http_exception"
    THEN [status |-> out.status, handled |-> TRUE, msg |-> out.msg, a |-> out.a, b |-> out.b]
    ELSE [status |-> 500, handled |-> FALSE, msg |-> "Internal Server Error", a |-> <<>>, b |-> <<>>]
ValidationError == [status |-> 422, handled |-> TRUE, msg |-> "validation error", a |-> <<>>, b |-> <<>>]
NoResponse      == [status |-> 0, handled |-> TRUE, msg |-> "", a |-> <<>>, b |-> <<>>]

\* get_file passing a token kept from whichever request obtained one first.
SharedToken(r, out) ==
    IF \E s \in Requests : fetchSent[s] # NoFetch
    THEN fetchSent[CHOOSE s \in Requests : fetchSent[s] # NoFetch].token
    ELSE out.a

\* get_file line 149-150: the token handed to download_file_by_path is the one
\* this call of acquire_access_token returned.
AccessToken(r, out) == out.a

\* A request arrives: the body is validated against FileRequest; a valid one
\* enters get_file, which runs up to the POST of acquire_access_token.
Receive(r) ==
    /\ started = "ready"
    /\ rpc[r] = "idle"
    /\ \E b \in Bodies :
        /\ body' = [body EXCEPT ![r] = b]
        /\ IF ValidFileRequest(b)
           THEN /\ parsed' = [parsed EXCEPT ![r] = ParseFileRequest(b)]
                /\ tokenCalls' = [tokenCalls EXCEPT ![r] = @ + 1]
                /\ rpc' = [rpc EXCEPT ![r] = "token"]
                /\ UNCHANGED response
           ELSE /\ response' = [response EXCEPT ![r] = ValidationError]
                /\ rpc' = [rpc EXCEPT ![r] = "done"]
                /\ UNCHANGED <<parsed, tokenCalls>>
    /\ UNCHANGED <<env, started, startupError, config, tokenReply, contentReply,
                   fetchCalls, fetchSent>>
    /\ UNCHANGED <<pathVars, discVars>>

\* The token endpoint answers: acquire_access_token finishes; when it returns,
\* get_file goes on into download_file_by_path up to its GET.
TokenAnswer(r) ==
    /\ rpc[r] = "token"
    /\ \E reply \in TokenReplies :
        LET out == AcquireAccessToken(reply) IN
        /\ tokenReply' = [tokenReply EXCEPT ![r] = reply]
        /\ IF out.kind = "return"
           THEN /\ fetchSent' = [fetchSent EXCEPT ![r] =
                        GraphGet(parsed[r].folder, parsed[r].fileName, AccessToken(r, out))]
                /\ fetchCalls' = [fetchCalls EXCEPT ![r] = @ + 1]
                /\ rpc' = [rpc EXCEPT ![r] = "content"]
                /\ UNCHANGED response
           ELSE /\ response' = [response EXCEPT ![r] = Respond(out)]
                /\ rpc' = [rpc EXCEPT ![r] = "done"]
                /\ UNCHANGED <<fetchSent, fetchCalls>>
    /\ UNCHANGED <<env, started, startupError, config, body, parsed, contentReply,
                   tokenCalls>>
    /\ UNCHANGED <<pathVars, discVars>>

\* The content endpoint answers: download_file_by_path and get_file finish.
ContentAnswer(r) ==
    /\ rpc[r] = "content"
    /\ \E reply \in ContentReplies :
        /\ contentReply' = [contentReply EXCEPT ![r] = reply]
        /\ response' = [response EXCEPT ![r] =
                Respond(DownloadFileByPath(parsed[r].folder, parsed[r].fileName, reply))]
    /\ rpc' = [rpc EXCEPT ![r] = "done"]
    /\ UNCHANGED <<env, started, startupError, config, body, parsed, tokenReply,
                   tokenCalls, fetchCalls, fetchSent>>
    /\ UNCHANGED <<pathVars, discVars>>

SvcInit ==
    /\ env \in [EnvNames -> EnvValues]
    /\ started = "no"
    /\ startupError = NoError
    /\ config = NoConfig
    /\ rpc = [r \in Requests |-> "idle"]
    /\ body = [r \in Requests |-> NoBody]
    /\ parsed = [r \in Requests |-> NoBody]
    /\ tokenReply = [r \in Requests |-> NoReply]
    /\ contentReply = [r \in Requests |-> NoReply]
    /\ tokenCalls = [r \in Requests |-> 0]
    /\ fetchCalls = [r \in Requests |-> 0]
    /\ fetchSent = [r \in Requests |-> NoFetch]
    /\ response = [r \in Requests |-> NoResponse]

SvcNext ==
    \/ Startup
    \/ \E r \in Requests : Receive(r)
    \/ \E r \in Requests : TokenAnswer(r)
    \/ \E r \in Requests : ContentAnswer(r)

\* ========================================================= path construction
\* download_file_by_path's lines 100-101 applied to any folder (a str, or None
\* for a JSON null) and any file name.
PathInit ==
    /\ pFolder \in BoundedSeq(Chars, MaxLen) \cup {PyNone}
    /\ pFile \in BoundedSeq(Chars, MaxLen)
    /\ pPath = <<>>
    /\ pState = "input"

BuildPath ==
    /\ pState = "input"
    /\ pPath' = EncodedPath(pFolder, pFile)
    /\ pState' = "built"
    /\ UNCHANGED <<pFolder, pFile>>
    /\ UNCHANGED <<svcVars, discVars>>

PathNext == BuildPath

\* ============================================= Identifier Discovery Utility
Exc(type, m, a) == [kind |-> "raise", status |-> 0, msg |-> m, a |-> a, b |-> <<type>>]

\* requests.Response.__bool__ is Response.ok: False for a 4xx or 5xx status.
ResponseBool(reply) == ~IsErrorStatus(reply.code)

ErrorBodies    == {<<>>, <<"invalid_client">>}
DTokenReplies  == {TransportFailure}
                  \cup {HttpReply(401, eb) : eb \in ErrorBodies}
                  \cup {HttpReply(200, t) : t \in {Absent, <<>>} \cup Tokens}
SiteIds        == {<<"s1">>, <<"s2">>}
SiteReplies    == {TransportFailure, HttpReply(404, Absent)}
                  \cup {HttpReply(200, i) : i \in {Absent} \cup SiteIds}
\* A drive entry is reduced to its "id"; Absent is an entry without that key.
DriveEntries   == {Absent, <<"d1">>, <<"d2">>}
DriveReplies   == {TransportFailure, HttpReply(500, <<>>)}
                  \cup {HttpReply(200, ds) : ds \in BoundedSeq(DriveEntries, MaxDrives)}

\* acquire_token (lines 37-60). requests.post (line 50) is outside the try, and
\* only the HTTPError of raise_for_status is turned into a RuntimeError; its
\* message takes exc.response.text only if exc.response is truthy.
AcquireToken(reply) ==
    IF reply.kind = "transport"
    THEN Exc("requests.ConnectionError", "transport error", <<>>)
    ELSE IF IsErrorStatus(reply.code)
    THEN Exc("RuntimeError", "Failed to obtain token",
             IF ResponseBool(reply) THEN reply.payload ELSE ExcStr(reply))
    ELSE IF ~Truthy(reply.payload)
    THEN Exc("RuntimeError", "Token endpoint returned no access_token", <<>>)
    ELSE Return(reply.payload)

\* get_site_id (lines 63-91).
GetSiteId(reply) ==
    IF reply.kind = "transport"
    THEN Exc("requests.ConnectionError", "transport error", <<>>)
    ELSE IF IsErrorStatus(reply.code)
    THEN Exc("requests.HTTPError", "status error", ExcStr(reply))
    ELSE IF ~Truthy(reply.payload)
    THEN Exc("RuntimeError", "Failed to obtain site id from response", <<>>)
    ELSE Return(reply.payload)

\* get_default_drive_id returning the last drive of the listing.
GetLastDriveId(reply) ==
    IF reply.kind = "transport"
    THEN Exc("requests.ConnectionError", "transport error", <<>>)
    ELSE IF IsErrorStatus(reply.code)
    THEN Exc("requests.HTTPError", "status error", ExcStr(reply))
    ELSE IF reply.payload = <<>>
    THEN Exc("RuntimeError", "The specified site has no drives", <<>>)
    ELSE IF reply.payload[Len(reply.payload)] = Absent
    THEN Exc("KeyError", "id", <<>>)
    ELSE Return(reply.payload[Len(reply.payload)])

\* get_default_drive_id (lines 94-104): drives[0]["id"].
GetDefaultDriveId(reply) ==
    IF reply.kind = "transport"
    THEN Exc("requests.ConnectionError", "transport error", <<>>)
    ELSE IF IsErrorStatus(reply.code)
    THEN Exc("requests.HTTPError", "status error", ExcStr(reply))
    ELSE IF reply.payload = <<>>
    THEN Exc("RuntimeError", "The specified site has no drives", <<>>)
    ELSE IF reply.payload[1] = Absent
    THEN Exc("KeyError", "id", <<>>)
    ELSE Return(reply.payload[1])

Stages == {"token", "site", "drive"}
StagePrefix(stage) ==
    IF stage = "token" THEN "Error acquiring token:"
    ELSE IF stage = "site" THEN "Error obtaining site ID:"
    ELSE "Error obtaining drive ID:"

Call(stage, target, token) == [stage |-> stage, target |-> target, token |-> token]
ErrLine(prefix, out)       == [prefix |-> prefix, msg |-> out.msg, a |-> out.a]
\* What the interpreter writes for an exception that leaves main.
Traceback(out)             == [prefix |-> "Traceback (most recent call last):",
                               msg |-> out.msg, a |-> out.b]
OutLine(key, value)        == [key |-> key, value |-> value]

NotExited   == [kind |-> "running", code |-> 0]
Returned(c) == [kind |-> "return", code |-> c]
\* An exception left main: raise SystemExit(main()) is not reached and the
\* interpreter ends the process with status 1.
Uncaught    == [kind |-> "uncaught", code |-> 1]

NoLocals == [token |-> Absent, site_id |-> Absent, drive_id |-> Absent]

DiscInit ==
    /\ dArgs \in [domain : {<<"contoso.sharepoint.com">>},
                  site_name : {<<"Ventas">>, <<"HR">>},
                  tenant_id : {<<"tenant">>}]
    /\ dpc = "token"
    /\ dReplies = [st \in Stages |-> NoReply]
    /\ dLocals = NoLocals
    /\ dCalls = <<>>
    /\ dStdout = <<>>
    /\ dStderr = <<>>
    /\ dExit = NotExited

\* main, lines 140-145: acquire_token; only RuntimeError is caught.
MainToken ==
    /\ dpc = "token"
    /\ dCalls' = Append(dCalls, Call("token", dArgs.tenant_id, Absent))
    /\ \E reply \in DTokenReplies :
        LET out == AcquireToken(reply) IN
        /\ dReplies' = [dReplies EXCEPT !["token"] = reply]
        /\ IF out.kind = "return"
           THEN /\ dLocals' = [dLocals EXCEPT !.token = out.a]
                /\ dpc' = "site"
                /\ UNCHANGED <<dStderr, dExit>>
           ELSE IF out.b = <<"RuntimeError">>
           THEN /\ dStderr' = Append(dStderr, ErrLine(StagePrefix("token"), out))
                /\ dExit' = Returned(1)
                /\ dpc' = "done"
                /\ UNCHANGED dLocals
           ELSE /\ dStderr' = Append(dStderr, Traceback(out))
                /\ dExit' = Uncaught
                /\ dpc' = "done"
                /\ UNCHANGED dLocals
    /\ UNCHANGED <<dArgs, dStdout>>
    /\ UNCHANGED <<svcVars, pathVars>>

\* main, lines 146-150: get_site_id; every Exception is caught.
MainSite ==
    /\ dpc = "site"
    /\ dCalls' = Append(dCalls, Call("site", dArgs.domain \o <<":/sites/">> \o dArgs.site_name,
                                     dLocals.token))
    /\ \E reply \in SiteReplies :
        LET out == GetSiteId(reply) IN
        /\ dReplies' = [dReplies EXCEPT !["site"] = reply]
        /\ IF out.kind = "return"
           THEN /\ dLocals' = [dLocals EXCEPT !.site_id = out.a]
                /\ dpc' = "drive"
                /\ UNCHANGED <<dStderr, dExit>>
           ELSE /\ dStderr' = Append(dStderr, ErrLine(StagePrefix("site"), out))
                /\ dExit' = Returned(1)
                /\ dpc' = "done"
                /\ UNCHANGED dLocals
    /\ UNCHANGED <<dArgs, dStdout>>
    /\ UNCHANGED <<svcVars, pathVars>>

\* main, lines 151-158: get_default_drive_id; every Exception is caught; on
\* success the two lines are printed and main returns 0.
MainDrive ==
    /\ dpc = "drive"
    /\ dCalls' = Append(dCalls, Call("drive", dLocals.site_id, dLocals.token))
    /\ \E reply \in DriveReplies :
        LET out == GetDefaultDriveId(reply) IN
        /\ dReplies' = [dReplies EXCEPT !["drive"] = reply]
        /\ IF out.kind = "return"
           THEN /\ dLocals' = [dLocals EXCEPT !.drive_id = out.a]
                /\ dStdout' = <<OutLine("SITE_ID=", dLocals.site_id),
                                OutLine("DRIVE_ID=", out.a)>>
                /\ dExit' = Returned(0)
                /\ UNCHANGED dStderr
           ELSE /\ dStderr' = Append(dStderr, ErrLine(StagePrefix("drive"), out))
                /\ dExit' = Returned(1)
                /\ UNCHANGED <<dLocals, dStdout>>
    /\ dpc' = "done"
    /\ UNCHANGED dArgs
    /\ UNCHANGED <<svcVars, pathVars>>

DiscNext == MainToken \/ MainSite \/ MainDrive

\* ============================================================ specifications
SvcIdle ==
    /\ env = [n \in EnvNames |-> <<"v">>]
    /\ started = "no"
    /\ startupError = NoError
    /\ config = NoConfig
    /\ rpc = [r \in Requests |-> "idle"]
    /\ body = [r \in Requests |-> NoBody]
    /\ parsed = [r \in Requests |-> NoBody]
    /\ tokenReply = [r \in Requests |-> NoReply]
    /\ contentReply = [r \in Requests |-> NoReply]
    /\ tokenCalls = [r \in Requests |-> 0]
    /\ fetchCalls = [r \in Requests |-> 0]
    /\ fetchSent = [r \in Requests |-> NoFetch]
    /\ response = [r \in Requests |-> NoResponse]

PathIdle ==
    /\ pFolder = <<>>
    /\ pFile = <<>>
    /\ pPath = <<>>
    /\ pState = "input"

DiscIdle ==
    /\ dArgs = [domain |-> <<>>, site_name |-> <<>>, tenant_id |-> <<>>]
    /\ dpc = "token"
    /\ dReplies = [st \in Stages |-> NoReply]
    /\ dLocals = NoLocals
    /\ dCalls = <<>>
    /\ dStdout = <<>>
    /\ dStderr = <<>>
    /\ dExit = NotExited

\* The File Retrieval Service: startup, then any interleaving of requests.
Init == SvcInit /\ PathIdle /\ DiscIdle
Next == SvcNext
Spec == Init /\ [][Next]_vars

\* The path construction on every folder and file name up to MaxLen.
InitPath == PathInit /\ SvcIdle /\ DiscIdle
NextPath == PathNext
SpecPath == InitPath /\ [][NextPath]_vars

\* One run of the Discovery Utility.
InitDiscovery == DiscInit /\ SvcIdle /\ PathIdle
NextDiscovery == DiscNext
SpecDiscovery == InitDiscovery /\ [][NextDiscovery]_vars

\* ==================================================================== claims
ContentFailed(r) ==
    contentReply[r].kind = "transport"
    \/ (contentReply[r].kind = "http" /\ ~IsSuccess(contentReply[r].code))

\* C1: every failure of the Graph content GET is mapped: an upstream 404 gives a
\* 404 response naming the file and the folder, any other failure (another
\* non-success status, or a transport failure) gives a 500 response carrying the
\* upstream error detail, and no failure leaves the operation unmapped.
C1_ContentFailureMapped ==
    \A r \in Requests :
        (rpc[r] = "done" /\ ContentFailed(r)) =>
            /\ response[r].handled
            /\ IF contentReply[r].kind = "http" /\ contentReply[r].code = 404
               THEN /\ response[r].status = 404
                    /\ response[r].a = parsed[r].fileName
                    /\ response[r].b = parsed[r].folder
               ELSE /\ response[r].status = 500
                    /\ response[r].a = ExcStr(contentReply[r])

TokenHttpFailed(r) ==
    tokenReply[r].kind = "transport"
    \/ (tokenReply[r].kind = "http" /\ ~IsSuccess(tokenReply[r].code))
TokenMissing(r) ==
    tokenReply[r].kind = "http" /\ IsSuccess(tokenReply[r].code)
    /\ ~Truthy(tokenReply[r].payload)

\* C2: a token exchange that fails at the HTTP level (non-success status or
\* transport failure) ends the request with 502 and no content fetch; a
\* successful exchange without an access_token ends it with 500 and no content
\* fetch.
C2_AuthFailureStopsRequest ==
    \A r \in Requests :
        /\ TokenHttpFailed(r) =>
            /\ rpc[r] = "done" /\ response[r].status = 502
            /\ fetchCalls[r] = 0 /\ fetchSent[r] = NoFetch
        /\ TokenMissing(r) =>
            /\ rpc[r] = "done" /\ response[r].status = 500
            /\ fetchCalls[r] = 0 /\ fetchSent[r] = NoFetch

\* C2's case: one request ended by a transport failure of the token exchange,
\* another by a token reply without access_token.
C2_Witness ==
    \E r, s \in Requests :
        /\ tokenReply[r].kind = "transport" /\ response[r].status = 502
        /\ TokenMissing(s) /\ response[s].status = 500

\* C3: a success response of the content endpoint whose bytes cannot be decoded
\* as text ends the request with 400, never with 200 and a body.
C3_UndecodableGives400 ==
    \A r \in Requests :
        (/\ rpc[r] = "done"
         /\ contentReply[r].kind = "http" /\ IsSuccess(contentReply[r].code)
         /\ ~Decodable(contentReply[r].payload))
        => response[r].status = 400

\* The path the claim C4 describes: the folder as given, not stripped.
ClaimedPath(folder, file_name) ==
    IF Truthy(folder) THEN <<"/">> \o folder \o <<"/">> \o file_name
    ELSE <<"/">> \o file_name
HasDoubleSlash(s) == \E i \in 1..(Len(s) - 1) : s[i] = "/" /\ s[i + 1] = "/"
HasChar(s, c)     == \E i \in 1..Len(s) : s[i] = c

\* C4: the remote path is "/" + folder + "/" + file_name for a non-empty folder
\* and "/" + file_name otherwise, with each space replaced by "%20" and nothing
\* else changed; it holds no raw space, and the construction adds no double
\* slash (none appears when neither folder nor file name holds a slash).
C4_PathAsClaimed ==
    pState = "built" =>
        /\ pPath = ReplaceSpaces(ClaimedPath(pFolder, pFile))
        /\ ~HasChar(pPath, " ")
        /\ (~HasChar(pFolder, "/") /\ ~HasChar(pFile, "/")) => ~HasDoubleSlash(pPath)

FailedStage(st) ==
    /\ dReplies[st] # NoReply
    /\ \/ st = "token" /\ AcquireToken(dReplies[st]).kind = "raise"
       \/ st = "site" /\ GetSiteId(dReplies[st]).kind = "raise"
       \/ st = "drive" /\ GetDefaultDriveId(dReplies[st]).kind = "raise"
LaterStages(st) ==
    IF st = "token" THEN {"site", "drive"} ELSE IF st = "site" THEN {"drive"} ELSE {}

\* C5: a failure at any stage of the Discovery Utility (non-success status,
\* transport failure, or a response without the expected field) makes main
\* return 1 after writing one stderr message with that stage's prefix, with
\* nothing on stdout and no network call of a later stage.
C5_StageFailureIsReported ==
    \A st \in Stages :
        FailedStage(st) =>
            /\ dExit = Returned(1)
            /\ Len(dStderr) = 1 /\ dStderr[1].prefix = StagePrefix(st)
            /\ dStdout = <<>>
            /\ \A i \in 1..Len(dCalls) : dCalls[i].stage \notin LaterStages(st)

\* C6: when the token endpoint answers with a non-success status and a body,
\* the "Error acquiring token:" message embeds that body.
C6_TokenErrorEmbedsBody ==
    (/\ dpc = "done"
     /\ dReplies["token"].kind = "http" /\ IsErrorStatus(dReplies["token"].code)
     /\ dReplies["token"].payload # <<>>)
    => /\ Len(dStderr) = 1
       /\ dStderr[1].prefix = StagePrefix("token")
       /\ dStderr[1].a = dReplies["token"].payload

Rejected(r) ==
    /\ rpc[r] = "done" /\ response[r] = ValidationError
    /\ tokenCalls[r] = 0 /\ fetchCalls[r] = 0 /\ fetchSent[r] = NoFetch

\* C7 as stated: a body is accepted only if fileName is a non-empty string; a
\* missing or empty fileName is rejected at validation with no upstream call.
C7_EmptyFileNameRejected ==
    \A r \in Requests :
        rpc[r] # "idle" =>
            /\ ~Truthy(body[r].fileName) => Rejected(r)
            /\ ~Rejected(r) => Truthy(body[r].fileName)

\* C7 (amended): a body whose fileName is missing or null is rejected at
\* validation and neither upstream call is issued for it; a body whose fileName
\* is a string, the empty string included, is accepted and its token exchange
\* is issued.
C7_FileNameRequired ==
    \A r \in Requests :
        rpc[r] # "idle" =>
            /\ body[r].fileName \in {Absent, PyNone} => Rejected(r)
            /\ IsStr(body[r].fileName) =>
                (tokenCalls[r] = 1 /\ response[r].status # 422)

\* C7's case: an empty fileName went through to the content fetch while a body
\* without fileName was rejected.
C7_Witness ==
    \E r, s \in Requests :
        /\ body[r].fileName = <<>> /\ fetchCalls[r] = 1
        /\ rpc[s] = "done" /\ body[s].fileName = Absent /\ Rejected(s)

\* The status a request ends with, from its own body and upstream replies alone.
OwnStatus(r) ==
    IF ~IsStr(body[r].fileName) THEN 422
    ELSE IF TokenHttpFailed(r) THEN 502
    ELSE IF TokenMissing(r) THEN 500
    ELSE IF contentReply[r].kind = "transport" THEN 500
    ELSE IF contentReply[r].code = 404 THEN 404
    ELSE IF ~IsSuccess(contentReply[r].code) THEN 500
    ELSE 200

C8_Inv ==
    \A r \in Requests :
        /\ tokenCalls[r] <= 1 /\ fetchCalls[r] <= 1
        /\ (rpc[r] # "idle" /\ IsStr(body[r].fileName)) => tokenCalls[r] = 1
        /\ (fetchCalls[r] = 0) <=> (fetchSent[r] = NoFetch)
        /\ fetchCalls[r] = 1 =>
            /\ tokenReply[r].kind = "http" /\ IsSuccess(tokenReply[r].code)
            /\ Truthy(tokenReply[r].payload)
            /\ fetchSent[r].token = tokenReply[r].payload
        /\ rpc[r] = "done" => response[r].status = OwnStatus(r)

PerRequest(r) == <<rpc[r], body[r], parsed[r], tokenReply[r], contentReply[r],
                   tokenCalls[r], fetchCalls[r], fetchSent[r], response[r]>>

C8_Step ==
    /\ \A r \in Requests :
        (rpc[r] = "done" \/ rpc'[r] = rpc[r]) => PerRequest(r)' = PerRequest(r)
    /\ \A r, s \in Requests : (rpc'[r] # rpc[r] /\ rpc'[s] # rpc[s]) => r = s

\* C8: under any interleaving each request issues its own token exchange, its
\* content fetch is issued only after that exchange succeeded and carries the
\* token that exchange returned, each upstream call is issued at most once per
\* request, a finished request's response depends on its own replies only,
\* a finished request never changes again and a step of one request leaves
\* every other request as it was.
C8_RequestsIndependent == []C8_Inv /\ [][C8_Step]_vars

\* C8's case: two requests in flight at once, fetching with different tokens.
C8_Witness ==
    \E r, s \in Requests :
        /\ rpc[r] = "content" /\ rpc[s] = "content"
        /\ fetchSent[r].token = <<"t1">> /\ fetchSent[s].token = <<"t2">>

AllSucceeded ==
    /\ dpc = "done"
    /\ AcquireToken(dReplies["token"]).kind = "return"
    /\ GetSiteId(dReplies["site"]).kind = "return"
    /\ dReplies["drive"].kind = "http" /\ ~IsErrorStatus(dReplies["drive"].code)
    /\ dReplies["drive"].payload # <<>>
    /\ dReplies["drive"].payload[1] # Absent

\* C9: when the three stages succeed the run prints exactly SITE_ID=<the id of
\* the site reply> then DRIVE_ID=<the id of the first drive listed>, writes
\* nothing to stderr and returns 0; the drive listing is asked for the site id
\* the site lookup returned.
C9_SuccessPrintsIds ==
    AllSucceeded =>
        /\ dStdout = <<OutLine("SITE_ID=", dReplies["site"].payload),
                       OutLine("DRIVE_ID=", dReplies["drive"].payload[1])>>
        /\ dStderr = <<>>
        /\ dExit = Returned(0)
        /\ Len(dCalls) = 3
        /\ dCalls[3].stage = "drive"
        /\ dCalls[3].target = dReplies["site"].payload

\* C9's case: a successful run over a listing of two different drives.
C9_Witness ==
    /\ AllSucceeded
    /\ Len(dReplies["drive"].payload) = 2
    /\ dReplies["drive"].payload[2] \notin {Absent, dReplies["drive"].payload[1]}
    /\ dExit = Returned(0)

MissingVars == {i \in 1..Len(EnvVars) : env[EnvVars[i]] \in {Absent, <<>>}}
FirstMissing == EnvVars[CHOOSE i \in MissingVars : \A j \in MissingVars : i <= j]

\* C10: startup with a variable absent or empty fails with an error naming the
\* first such variable in the order TENANT_ID, CLIENT_ID, CLIENT_SECRET,
\* SITE_ID, DRIVE_ID (so exactly that variable when it is the only one), and
\* then the application is not created and no request is served.
C10_StartupValidation ==
    /\ started # "no" =>
        IF MissingVars = {}
        THEN started = "ready" /\ startupError = NoError
        ELSE started = "failed" /\ startupError = FirstMissing
    /\ started # "ready" =>
        \A r \in Requests : rpc[r] = "idle" /\ response[r] = NoResponse

\* C10's case: startup failed on an empty CLIENT_SECRET with DRIVE_ID absent too.
C10_Witness ==
    /\ started = "failed"
    /\ env["CLIENT_SECRET"] = <<>> /\ env["DRIVE_ID"] = Absent
    /\ startupError = "CLIENT_SECRET"

====
